---- MODULE Spec2Model ----
(***************************************************************************)
(* Coaster track drawing (src/components/coaster/tracks/trackDrawing.ts).  *)
(*                                                                         *)
(* The renderers are immediate-mode: each call computes screen geometry    *)
(* and issues canvas commands on a caller-owned 2D context.  The model     *)
(* keeps the context's paint state and the log of the stroke/fill          *)
(* operations issued by the last call.  The same call is replayed on a     *)
(* second surface whose inherited paint state may differ.                  *)
(*                                                                         *)
(* Arithmetic is fixed point: lengths and coordinates are in hundredths of *)
(* a pixel, unit vectors and trigonometric values in ten-thousandths.      *)
(* IEEE-754 rounding below that resolution is not represented.             *)
(*                                                                         *)
(* The module also models the useCopyRoomLink hook: its copied flag, the   *)
(* timer handle it keeps in timeoutRef, the host's pending timers and the  *)
(* component's mounted state, with time passing in steps of TickMs.        *)
(***************************************************************************)
EXTENDS Integers, Sequences, FiniteSets, TLC

VARIABLES ctx, ctx2, call, pc, ret

\* useCopyRoomLink: the hook's argument, the host's clipboard support, the
\* hook's state and ref, the host's pending timers, whether the component
\* is mounted, the time since the last completed invocation (saturating at
\* TIMEOUT_MS) and the number of invocations so far.
VARIABLES roomCode, hasClipboard, copied, timeoutRef, timers, mounted,
          sinceClick, clicks

trackVars == <<ctx, ctx2, call, pc, ret>>

hookVars == <<roomCode, hasClipboard, copied, timeoutRef, timers, mounted,
              sinceClick, clicks>>

vars == <<ctx, ctx2, call, pc, ret, roomCode, hasClipboard, copied,
          timeoutRef, timers, mounted, sinceClick, clicks>>

\* ------------------------------------------------------------------------
\* Bounds of the explored input space
\* ------------------------------------------------------------------------
MaxGrid == 1
MaxHeight == 1
MaxTick == 5
MaxClicks == 3
TickMs == 250

\* ------------------------------------------------------------------------
\* Fixed-point arithmetic
\* ------------------------------------------------------------------------
PX == 10 * 10          \* one pixel, in coordinate units
UNIT == 100 * 100      \* 1.0 for unit vectors, sines and cosines

Abs(a) == IF a < 0 THEN 0 - a ELSE a
Max(a, b) == IF a >= b THEN a ELSE b

\* a / b rounded to the nearest integer, symmetric about zero (b > 0)
Div(a, b) == IF a >= 0 THEN (2 * a + b) \div (2 * b)
                       ELSE 0 - ((2 * (0 - a) + b) \div (2 * b))

RECURSIVE SqrtIter(_, _)
SqrtIter(n, x) == LET y == (x + n \div x) \div 2
                  IN  IF y >= x THEN x ELSE SqrtIter(n, y)

\* Math.sqrt, rounded to the nearest integer
Sqrt(n) == IF n <= 0 THEN 0
           ELSE LET r == SqrtIter(n, n)
                IN  IF n - r * r > r THEN r + 1 ELSE r

\* Math.hypot
Hypot(dx, dy) == Sqrt(dx * dx + dy * dy)

\* The value of x / 0 (NaN or an infinity): a number no coordinate equals.
NaN == 0 - 99999999

\* component * UNIT / len : one component of a normalised vector
Normalise(comp, len) == IF len = 0 THEN NaN ELSE Div(comp * UNIT, len)

\* unit-vector component times a length, back in coordinate units
Scale(u, len) == IF u = NaN THEN NaN ELSE Div(u * len, UNIT)

Pt(x, y) == [x |-> x, y |-> y]

\* ------------------------------------------------------------------------
\* Constants of trackDrawing.ts
\* ------------------------------------------------------------------------
TILE_WIDTH == 6400
HEIGHT_RATIO == 60     \* per cent
TILE_HEIGHT == (TILE_WIDTH * HEIGHT_RATIO) \div 100
TRACK_WIDTH == 800
RAIL_WIDTH == 200
TIE_LENGTH == 1200
TIE_SPACING == 800
HEIGHT_UNIT == 2000

COLORS == [rail |-> "#4b5563", tie |-> "#78350f",
           woodMain |-> "#8B4513", woodDark |-> "#5D3A1A",
           woodLight |-> "#A0522D", woodAccent |-> "#654321",
           metalMain |-> "#4A5568", metalDark |-> "#2D3748",
           metalLight |-> "#718096", metalRivet |-> "#1A202C"]

TrackDirection == {"north", "east", "south", "west"}
StrutStyle == {"wood", "metal"}

\* Variant: the row step taken as the full tile height
gridToScreen_fullHeight(gridX, gridY) ==
    Pt((gridX - gridY) * (TILE_WIDTH \div 2), (gridX + gridY) * TILE_HEIGHT)

gridToScreen(gridX, gridY) ==
    Pt((gridX - gridY) * (TILE_WIDTH \div 2), (gridX + gridY) * (TILE_HEIGHT \div 2))

\* Variant: the height offset is added to y instead of subtracted
gridToScreen3D_heightAdded(gridX, gridY, height) ==
    LET p == gridToScreen(gridX, gridY)
    IN  Pt(p.x, p.y + height * HEIGHT_UNIT)

gridToScreen3D(gridX, gridY, height) ==
    LET p == gridToScreen(gridX, gridY)
    IN  Pt(p.x, p.y - height * HEIGHT_UNIT)

DIRECTIONS == [north |-> [dx |-> 0 - 7071, dy |-> 0 - 4243],
               east  |-> [dx |-> 7071,     dy |-> 0 - 4243],
               south |-> [dx |-> 7071,     dy |-> 4243],
               west  |-> [dx |-> 0 - 7071, dy |-> 4243]]

\* ------------------------------------------------------------------------
\* The 2D context: paint state, current path, log of operations
\* ------------------------------------------------------------------------
\* Commands a renderer issues, in program order.  part names the block of
\* the renderer that issued it (support, tie, rail, link).
Cmd(c, s, n, x, y) == [c |-> c, s |-> s, n |-> n, x |-> x, y |-> y, part |-> ""]

SetStrokeStyle(v) == Cmd("strokeStyle", v, 0, 0, 0)
SetFillStyle(v)   == Cmd("fillStyle", v, 0, 0, 0)
SetLineWidth(n)   == Cmd("lineWidth", "", n, 0, 0)
SetLineCap(v)     == Cmd("lineCap", v, 0, 0, 0)
BeginPath         == Cmd("beginPath", "", 0, 0, 0)
MoveTo(x, y)      == Cmd("moveTo", "", 0, x, y)
LineTo(x, y)      == Cmd("lineTo", "", 0, x, y)
ClosePath         == Cmd("closePath", "", 0, 0, 0)
Arc(x, y, r)      == Cmd("arc", "", r, x, y)
Stroke            == Cmd("stroke", "", 0, 0, 0)
Fill              == Cmd("fill", "", 0, 0, 0)
\* fillRect(x, y, w, h): s carries nothing, n is w; the height is fixed per caller
FillRect(x, y, w) == Cmd("fillRect", "", w, x, y)

Tag(cmds, part) == [i \in DOMAIN cmds |-> [cmds[i] EXCEPT !.part = part]]

StrokeLine(x1, y1, x2, y2) == <<BeginPath, MoveTo(x1, y1), LineTo(x2, y2), Stroke>>

\* One logged operation: what was painted and the paint state in effect.
LogOp(c, kind, part, path) ==
    [op |-> kind, part |-> part, path |-> path,
     strokeStyle |-> c.strokeStyle, fillStyle |-> c.fillStyle,
     lineWidth |-> c.lineWidth, lineCap |-> c.lineCap]

\* The effect of one command on the context.
Exec(c, k) ==
    CASE k.c = "strokeStyle" -> [c EXCEPT !.strokeStyle = k.s]
      [] k.c = "fillStyle"   -> [c EXCEPT !.fillStyle = k.s]
      [] k.c = "lineWidth"   -> [c EXCEPT !.lineWidth = k.n]
      [] k.c = "lineCap"     -> [c EXCEPT !.lineCap = k.s]
      [] k.c = "beginPath"   -> [c EXCEPT !.path = <<>>]
      [] k.c = "moveTo"      -> [c EXCEPT !.path = Append(@, <<"M", k.x, k.y>>)]
      [] k.c = "lineTo"      -> [c EXCEPT !.path = Append(@, <<"L", k.x, k.y>>)]
      [] k.c = "closePath"   -> [c EXCEPT !.path = Append(@, <<"Z", 0, 0>>)]
      [] k.c = "arc"         -> [c EXCEPT !.path = Append(@, <<"A", k.x, k.y>>)]
      [] k.c = "stroke"      -> [c EXCEPT !.ops = Append(@, LogOp(c, "stroke", k.part, c.path))]
      [] k.c = "fill"        -> [c EXCEPT !.ops = Append(@, LogOp(c, "fill", k.part, c.path))]
      [] k.c = "fillRect"    -> [c EXCEPT !.ops =
                                   Append(@, LogOp(c, "fillRect", k.part, <<<<"R", k.x, k.y>>>>))]

\* Commands lo .. hi of cmds executed in order.  The range is halved and the
\* left half is evaluated before the right half starts (the test on left
\* makes the evaluation strict), which keeps the evaluation shallow.
RECURSIVE RunRange(_, _, _, _)
RunRange(c, cmds, lo, hi) ==
    IF lo > hi THEN c
    ELSE IF lo = hi THEN Exec(c, cmds[lo])
    ELSE LET mid == (lo + hi) \div 2
             left == RunRange(c, cmds, lo, mid)
         IN  IF Len(left.ops) >= 0 THEN RunRange(left, cmds, mid + 1, hi) ELSE left

\* A draw call on a surface: the log restarts; the paint state and the current
\* path are inherited.
Run(c, cmds) == RunRange([c EXCEPT !.ops = <<>>], cmds, 1, Len(cmds))

\* ------------------------------------------------------------------------
\* Tile anchors
\* ------------------------------------------------------------------------
\* The five anchors the renderers compute inline from the tile origin.
TileAnchors(startX, startY, heightOffset) ==
    LET w == TILE_WIDTH
        h == TILE_HEIGHT
    IN  [north  |-> Pt(startX + w \div 4, startY + h \div 4 - heightOffset),
         east   |-> Pt(startX + (3 * w) \div 4, startY + h \div 4 - heightOffset),
         south  |-> Pt(startX + (3 * w) \div 4, startY + (3 * h) \div 4 - heightOffset),
         west   |-> Pt(startX + w \div 4, startY + (3 * h) \div 4 - heightOffset),
         center |-> Pt(startX + w \div 2, startY + h \div 2 - heightOffset)]

\* Unit vector along a -> b
UnitAlong(a, b) ==
    LET len == Hypot(b.x - a.x, b.y - a.y)
    IN  Pt(Normalise(b.x - a.x, len), Normalise(b.y - a.y, len))

\* ------------------------------------------------------------------------
\* Support structures
\* ------------------------------------------------------------------------
\* The optional perp argument: undefined, or a vector.
Undefined == [def |-> FALSE, x |-> 0, y |-> 0]
Perp(x, y) == [def |-> TRUE, x |-> x, y |-> y]

\* base + (top - base) * num / den
Lerp(base, top, num, den) == base + Div((top - base) * num, den)

\* Column geometry of drawWoodSupport
WoodColumns(x, groundY, height, perp) ==
    LET columnSpacing == 6 * PX
        perpX == IF perp.def THEN perp.x ELSE UNIT
        perpY == IF perp.def THEN perp.y ELSE 0
        offsetX == Scale(perpX, columnSpacing)
        offsetY == Scale(perpY, columnSpacing)
        supportHeight == height * HEIGHT_UNIT
        leftBaseX == x - offsetX
        leftBaseY == groundY - offsetY
        leftTopY == leftBaseY - supportHeight
        rightBaseX == x + offsetX
        rightBaseY == groundY + offsetY
        rightTopY == rightBaseY - supportHeight
        leanX == Div(offsetX * 15, 100)
        leanY == Div(offsetY * 15, 100)
    IN  [leftBaseX |-> leftBaseX, leftBaseY |-> leftBaseY,
         rightBaseX |-> rightBaseX, rightBaseY |-> rightBaseY,
         leftTopX |-> leftBaseX + leanX, rightTopX |-> rightBaseX - leanX,
         leftTopY |-> leftTopY + leanY, rightTopY |-> rightTopY - leanY]

\* Sections i .. numSections-1 of the wood frame: ledger and X-brace each
RECURSIVE WoodSections(_, _, _)
WoodSections(g, i, numSections) ==
    IF i >= numSections THEN <<>>
    ELSE LET topLeftX == Lerp(g.leftBaseX, g.leftTopX, i + 1, numSections)
             topLeftY == Lerp(g.leftBaseY, g.leftTopY, i + 1, numSections)
             bottomLeftX == Lerp(g.leftBaseX, g.leftTopX, i, numSections)
             bottomLeftY == Lerp(g.leftBaseY, g.leftTopY, i, numSections)
             topRightX == Lerp(g.rightBaseX, g.rightTopX, i + 1, numSections)
             topRightY == Lerp(g.rightBaseY, g.rightTopY, i + 1, numSections)
             bottomRightX == Lerp(g.rightBaseX, g.rightTopX, i, numSections)
             bottomRightY == Lerp(g.rightBaseY, g.rightTopY, i, numSections)
             ledger == IF i > 0
                       THEN <<SetStrokeStyle(COLORS.woodAccent), SetLineWidth(2 * PX)>>
                            \o StrokeLine(bottomLeftX, bottomLeftY, bottomRightX, bottomRightY)
                       ELSE <<>>
         IN  ledger
             \o <<SetStrokeStyle(COLORS.woodAccent), SetLineWidth(150)>>
             \o StrokeLine(bottomLeftX, bottomLeftY, topRightX, topRightY)
             \o StrokeLine(bottomRightX, bottomRightY, topLeftX, topLeftY)
             \o WoodSections(g, i + 1, numSections)

\* The strokes and fills of drawWoodSupport on the column geometry g
WoodFrame(g, height) ==
         LET woodWidth == 3 * PX
             \* Math.max(2, Math.ceil(height * 1.5))
             numSections == Max(2, (3 * height + 1) \div 2)
             blockSize == 3 * PX
         IN  <<SetStrokeStyle(COLORS.woodDark), SetLineWidth(woodWidth + 150), SetLineCap("square")>>
             \o StrokeLine(g.leftBaseX + 50, g.leftBaseY + 50, g.leftTopX + 50, g.leftTopY + 50)
             \o StrokeLine(g.rightBaseX + 50, g.rightBaseY + 50, g.rightTopX + 50, g.rightTopY + 50)
             \o <<SetStrokeStyle(COLORS.woodMain), SetLineWidth(woodWidth)>>
             \o StrokeLine(g.leftBaseX, g.leftBaseY, g.leftTopX, g.leftTopY)
             \o StrokeLine(g.rightBaseX, g.rightBaseY, g.rightTopX, g.rightTopY)
             \o <<SetStrokeStyle(COLORS.woodLight), SetLineWidth(1 * PX)>>
             \o StrokeLine(g.leftBaseX - 50, g.leftBaseY, g.leftTopX - 50, g.leftTopY)
             \o StrokeLine(g.rightBaseX - 50, g.rightBaseY, g.rightTopX - 50, g.rightTopY)
             \o WoodSections(g, 0, numSections)
             \o <<SetStrokeStyle(COLORS.woodDark), SetLineWidth(3 * PX)>>
             \o StrokeLine(g.leftTopX, g.leftTopY, g.rightTopX, g.rightTopY)
             \o <<SetStrokeStyle(COLORS.woodMain), SetLineWidth(250)>>
             \o StrokeLine(g.leftTopX, g.leftTopY, g.rightTopX, g.rightTopY)
             \o <<SetFillStyle(COLORS.woodDark),
                  FillRect(g.leftBaseX - blockSize \div 2, g.leftBaseY - 1 * PX, blockSize),
                  FillRect(g.rightBaseX - blockSize \div 2, g.rightBaseY - 1 * PX, blockSize)>>

\* Variant: the early return on height <= 0 is missing
drawWoodSupport_unguarded(x, groundY, height, perp) ==
    WoodFrame(WoodColumns(x, groundY, height, perp), height)

drawWoodSupport(x, groundY, height, perp) ==
    IF height <= 0 THEN <<>>
    ELSE WoodFrame(WoodColumns(x, groundY, height, perp), height)

\* Variant: the left column is not shifted along the perpendicular in y
MetalColumns_leftUnshifted(x, groundY, height, perp) ==
    LET columnSpacing == 5 * PX
        perpX == IF perp.def THEN perp.x ELSE UNIT
        perpY == IF perp.def THEN perp.y ELSE 0
        offsetX == Scale(perpX, columnSpacing)
        offsetY == Scale(perpY, columnSpacing)
        supportHeight == height * HEIGHT_UNIT
    IN  [leftBaseX |-> x - offsetX, leftBaseY |-> groundY,
         rightBaseX |-> x + offsetX, rightBaseY |-> groundY + offsetY,
         leftTopX |-> x - offsetX, rightTopX |-> x + offsetX,
         leftTopY |-> groundY - supportHeight,
         rightTopY |-> groundY + offsetY - supportHeight]

\* Column geometry of drawMetalSupport (columns are vertical: top x = base x)
MetalColumns(x, groundY, height, perp) ==
    LET columnSpacing == 5 * PX
        perpX == IF perp.def THEN perp.x ELSE UNIT
        perpY == IF perp.def THEN perp.y ELSE 0
        offsetX == Scale(perpX, columnSpacing)
        offsetY == Scale(perpY, columnSpacing)
        supportHeight == height * HEIGHT_UNIT
    IN  [leftBaseX |-> x - offsetX, leftBaseY |-> groundY - offsetY,
         rightBaseX |-> x + offsetX, rightBaseY |-> groundY + offsetY,
         leftTopX |-> x - offsetX, rightTopX |-> x + offsetX,
         leftTopY |-> groundY - offsetY - supportHeight,
         rightTopY |-> groundY + offsetY - supportHeight]

\* Braces i .. numBraces of the metal lattice, with K-bracing between levels
RECURSIVE MetalBraces(_, _, _)
MetalBraces(g, i, numBraces) ==
    IF i > numBraces THEN <<>>
    ELSE LET leftBraceY == Lerp(g.leftTopY, g.leftBaseY, i, numBraces + 1)
             rightBraceY == Lerp(g.rightTopY, g.rightBaseY, i, numBraces + 1)
             nextLeftBraceY == Lerp(g.leftTopY, g.leftBaseY, i + 1, numBraces + 1)
             nextRightBraceY == Lerp(g.rightTopY, g.rightBaseY, i + 1, numBraces + 1)
             midX == Div(g.leftBaseX + g.rightBaseX, 2)
             midY == Div(leftBraceY + rightBraceY, 2)
             kbrace == IF i < numBraces
                       THEN <<SetStrokeStyle(COLORS.metalMain), SetLineWidth(1 * PX)>>
                            \o StrokeLine(midX, midY, g.leftBaseX, nextLeftBraceY)
                            \o StrokeLine(midX, midY, g.rightBaseX, nextRightBraceY)
                       ELSE <<>>
         IN  <<SetStrokeStyle(COLORS.metalDark), SetLineWidth(2 * PX)>>
             \o StrokeLine(g.leftBaseX, leftBraceY, g.rightBaseX, rightBraceY)
             \o <<SetStrokeStyle(COLORS.metalMain), SetLineWidth(150)>>
             \o StrokeLine(g.leftBaseX, leftBraceY, g.rightBaseX, rightBraceY)
             \o kbrace
             \o MetalBraces(g, i + 1, numBraces)

\* Diamond base plate under one column
BasePlate(bx, by) ==
    LET plateSize == 4 * PX
        plateHeight == 2 * PX
    IN  <<BeginPath, MoveTo(bx, by),
          LineTo(bx - plateSize \div 2, by + (plateSize * 3) \div 10),
          LineTo(bx, by + plateHeight),
          LineTo(bx + plateSize \div 2, by + (plateSize * 3) \div 10),
          ClosePath, Fill>>

\* The strokes and fills of drawMetalSupport on the column geometry g
MetalFrame(g, height) ==
         LET beamWidth == 250
             \* Math.max(1, Math.floor(height / 1.5))
             numBraces == Max(1, (2 * height) \div 3)
             rivetSize == 1 * PX
         IN  <<SetStrokeStyle(COLORS.metalDark), SetLineWidth(beamWidth + 1 * PX), SetLineCap("butt")>>
             \o StrokeLine(g.leftBaseX + 50, g.leftBaseY + 50, g.leftBaseX + 50, g.leftTopY + 50)
             \o StrokeLine(g.rightBaseX + 50, g.rightBaseY + 50, g.rightBaseX + 50, g.rightTopY + 50)
             \o <<SetStrokeStyle(COLORS.metalMain), SetLineWidth(beamWidth)>>
             \o StrokeLine(g.leftBaseX, g.leftBaseY, g.leftBaseX, g.leftTopY)
             \o StrokeLine(g.rightBaseX, g.rightBaseY, g.rightBaseX, g.rightTopY)
             \o <<SetStrokeStyle(COLORS.metalLight), SetLineWidth(80)>>
             \o StrokeLine(g.leftBaseX - 80, g.leftBaseY, g.leftBaseX - 80, g.leftTopY)
             \o StrokeLine(g.rightBaseX - 80, g.rightBaseY, g.rightBaseX - 80, g.rightTopY)
             \o MetalBraces(g, 1, numBraces)
             \o <<SetStrokeStyle(COLORS.metalDark), SetLineWidth(250)>>
             \o StrokeLine(g.leftBaseX, g.leftTopY, g.rightBaseX, g.rightTopY)
             \o <<SetStrokeStyle(COLORS.metalMain), SetLineWidth(2 * PX)>>
             \o StrokeLine(g.leftBaseX, g.leftTopY, g.rightBaseX, g.rightTopY)
             \o <<SetFillStyle(COLORS.metalDark)>>
             \o BasePlate(g.leftBaseX, g.leftBaseY)
             \o BasePlate(g.rightBaseX, g.rightBaseY)
             \o <<SetFillStyle(COLORS.metalRivet),
                  BeginPath, Arc(g.leftBaseX, g.leftTopY, rivetSize), Fill,
                  BeginPath, Arc(g.rightBaseX, g.rightTopY, rivetSize), Fill>>

drawMetalSupport(x, groundY, height, perp) ==
    IF height <= 0 THEN <<>>
    ELSE MetalFrame(MetalColumns(x, groundY, height, perp), height)

\* Dispatch on the strut style; every command it issues belongs to the support.
drawSupport(x, groundY, height, perp, strutStyle) ==
    Tag(IF strutStyle = "wood"
        THEN drawWoodSupport(x, groundY, height, perp)
        ELSE drawMetalSupport(x, groundY, height, perp), "support")

\* ------------------------------------------------------------------------
\* Straight segment
\* ------------------------------------------------------------------------
\* Endpoints and perpendicular of drawStraightTrack
StraightEdges(a, direction) ==
    IF direction \in {"north", "south"}
    THEN [fromEdge |-> a.north, toEdge |-> a.south, center |-> a.center,
          perp |-> UnitAlong(a.west, a.east)]
    ELSE [fromEdge |-> a.east, toEdge |-> a.west, center |-> a.center,
          perp |-> UnitAlong(a.north, a.south)]

StraightGeom(startX, startY, direction, height) ==
    StraightEdges(TileAnchors(startX, startY, height * HEIGHT_UNIT), direction)

\* Crossties i .. numTies along the line (x1,y1) + (dx,dy) * i / numTies
RECURSIVE LineTies(_, _, _, _, _, _, _)
LineTies(x1, y1, dx, dy, perp, i, numTies) ==
    IF i > numTies THEN <<>>
    ELSE LET tieX == x1 + Div(dx * i, numTies)
             tieY == y1 + Div(dy * i, numTies)
             hx == Scale(perp.x, TIE_LENGTH \div 2)
             hy == Scale(perp.y, TIE_LENGTH \div 2)
         IN  StrokeLine(tieX - hx, tieY - hy, tieX + hx, tieY + hy)
             \o LineTies(x1, y1, dx, dy, perp, i + 1, numTies)

\* Variant: the left rail is drawn on the side of the right one
LineRails_sidesSwapped(p1, p2, perp) ==
    LET railOffset == TRACK_WIDTH \div 2
        ox == Scale(perp.x, railOffset)
        oy == Scale(perp.y, railOffset)
    IN  StrokeLine(p1.x + ox, p1.y + oy, p2.x + ox, p2.y + oy)
        \o StrokeLine(p1.x - ox, p1.y - oy, p2.x - ox, p2.y - oy)

\* The two straight rails between p1 and p2, offset along perp
LineRails(p1, p2, perp) ==
    LET railOffset == TRACK_WIDTH \div 2
        ox == Scale(perp.x, railOffset)
        oy == Scale(perp.y, railOffset)
    IN  StrokeLine(p1.x - ox, p1.y - oy, p2.x - ox, p2.y - oy)
        \o StrokeLine(p1.x + ox, p1.y + oy, p2.x + ox, p2.y + oy)

\* Support, crossties and rails of drawStraightTrack on the geometry g
StraightCommands(g, height, trackColor, strutStyle) ==
    LET heightOffset == height * HEIGHT_UNIT
        length == Hypot(g.toEdge.x - g.fromEdge.x, g.toEdge.y - g.fromEdge.y)
        numTies == Max(3, length \div TIE_SPACING)
        support == IF height > 0
                   THEN drawSupport(g.center.x, g.center.y + heightOffset, height,
                                    Perp(g.perp.x, g.perp.y), strutStyle)
                   ELSE <<>>
    IN  support
        \o Tag(<<SetStrokeStyle(COLORS.tie), SetLineWidth(3 * PX), SetLineCap("butt")>>
               \o LineTies(g.fromEdge.x, g.fromEdge.y, g.toEdge.x - g.fromEdge.x,
                           g.toEdge.y - g.fromEdge.y, g.perp, 0, numTies), "tie")
        \o Tag(<<SetStrokeStyle(trackColor), SetLineWidth(RAIL_WIDTH), SetLineCap("round")>>
               \o LineRails(g.fromEdge, g.toEdge, g.perp), "rail")

drawStraightTrack(startX, startY, direction, height, trackColor, strutStyle) ==
    StraightCommands(StraightGeom(startX, startY, direction, height),
                     height, trackColor, strutStyle)

\* ------------------------------------------------------------------------
\* Turn
\* ------------------------------------------------------------------------
\* Variant: the row of the south entry has its two exits exchanged
CurveEdges_southRowSwapped(a, startDir, turnRight) ==
    CASE startDir = "north" ->
           [fromEdge |-> a.north, toEdge |-> IF turnRight THEN a.east ELSE a.west,
            center |-> a.center]
      [] startDir = "south" ->
           [fromEdge |-> a.south, toEdge |-> IF turnRight THEN a.east ELSE a.west,
            center |-> a.center]
      [] startDir = "east" ->
           [fromEdge |-> a.east, toEdge |-> IF turnRight THEN a.south ELSE a.north,
            center |-> a.center]
      [] OTHER ->
           [fromEdge |-> a.west, toEdge |-> IF turnRight THEN a.north ELSE a.south,
            center |-> a.center]

\* The 4 x 2 table of drawCurvedTrack: entry edge and exit edge (and the
\* tile centre, the control point)
CurveEdges(a, startDir, turnRight) ==
    CASE startDir = "north" ->
           [fromEdge |-> a.north, toEdge |-> IF turnRight THEN a.east ELSE a.west,
            center |-> a.center]
      [] startDir = "south" ->
           [fromEdge |-> a.south, toEdge |-> IF turnRight THEN a.west ELSE a.east,
            center |-> a.center]
      [] startDir = "east" ->
           [fromEdge |-> a.east, toEdge |-> IF turnRight THEN a.south ELSE a.north,
            center |-> a.center]
      [] OTHER ->
           [fromEdge |-> a.west, toEdge |-> IF turnRight THEN a.north ELSE a.south,
            center |-> a.center]

\* Variant: the weights u*u and t*t of the two end points are exchanged
QuadCoord_swappedWeights(f, c, to, i, n) ==
    Div(i * i * f + 2 * (n - i) * i * c + (n - i) * (n - i) * to, n * n)

\* One coordinate of the quadratic point at t = i / n:
\* u*u*from + 2*u*t*center + t*t*to with u = 1 - t
QuadCoord(f, c, to, i, n) ==
    Div((n - i) * (n - i) * f + 2 * (n - i) * i * c + i * i * to, n * n)

QuadPoint(fromEdge, center, toEdge, i, n) ==
    Pt(QuadCoord(fromEdge.x, center.x, toEdge.x, i, n),
       QuadCoord(fromEdge.y, center.y, toEdge.y, i, n))

\* Variant: the first term is weighted by t instead of 1 - t
TangentCoord_swappedWeight(f, c, to, i, n) ==
    Div(2 * i * (c - f) + 2 * i * (to - c), n)

\* One coordinate of the tangent at t = i / n:
\* 2*(1-t)*(center-from) + 2*t*(to-center)
TangentCoord(f, c, to, i, n) ==
    Div(2 * (n - i) * (c - f) + 2 * i * (to - c), n)

QuadTangent(fromEdge, center, toEdge, i, n) ==
    Pt(TangentCoord(fromEdge.x, center.x, toEdge.x, i, n),
       TangentCoord(fromEdge.y, center.y, toEdge.y, i, n))

\* perp = (-tangent.y / len, tangent.x / len)
PerpOf(tangent) ==
    LET len == Sqrt(tangent.x * tangent.x + tangent.y * tangent.y)
    IN  Pt(Normalise(0 - tangent.y, len), Normalise(tangent.x, len))

\* Geometry of drawCurvedTrack: the two edges it connects and the centre
CurveGeom(startX, startY, startDir, turnRight, height) ==
    CurveEdges(TileAnchors(startX, startY, height * HEIGHT_UNIT), startDir, turnRight)

\* Crossties i .. numTies along the curve
RECURSIVE CurveTies(_, _, _)
CurveTies(g, i, numTies) ==
    IF i > numTies THEN <<>>
    ELSE LET pt == QuadPoint(g.fromEdge, g.center, g.toEdge, i, numTies)
             perp == PerpOf(QuadTangent(g.fromEdge, g.center, g.toEdge, i, numTies))
             hx == Scale(perp.x, TIE_LENGTH \div 2)
             hy == Scale(perp.y, TIE_LENGTH \div 2)
         IN  StrokeLine(pt.x - hx, pt.y - hy, pt.x + hx, pt.y + hy)
             \o CurveTies(g, i + 1, numTies)

\* The rail point of one side at t = i / segments
CurveRailPoint(g, side, i, segments) ==
    LET railOffset == TRACK_WIDTH \div 2
        pt == QuadPoint(g.fromEdge, g.center, g.toEdge, i, segments)
        perp == PerpOf(QuadTangent(g.fromEdge, g.center, g.toEdge, i, segments))
    IN  Pt(pt.x + Scale(perp.x, railOffset) * side, pt.y + Scale(perp.y, railOffset) * side)

RECURSIVE CurveRail(_, _, _, _)
CurveRail(g, side, i, segments) ==
    IF i > segments THEN <<>>
    ELSE LET r == CurveRailPoint(g, side, i, segments)
         IN  <<IF i = 0 THEN MoveTo(r.x, r.y) ELSE LineTo(r.x, r.y)>>
             \o CurveRail(g, side, i + 1, segments)

\* Support, crossties and rails of drawCurvedTrack on the geometry g
CurveCommands(g, height, trackColor, strutStyle) ==
    LET heightOffset == height * HEIGHT_UNIT
        curveMid == QuadPoint(g.fromEdge, g.center, g.toEdge, 1, 2)
        support == IF height > 0
                   THEN drawSupport(curveMid.x, curveMid.y + heightOffset, height,
                                    Undefined, strutStyle)
                   ELSE <<>>
        numTies == 4
        segments == 16
    IN  support
        \o Tag(<<SetStrokeStyle(COLORS.tie), SetLineWidth(3 * PX)>>
               \o CurveTies(g, 0, numTies), "tie")
        \o Tag(<<SetStrokeStyle(trackColor), SetLineWidth(RAIL_WIDTH), SetLineCap("round")>>
               \o <<BeginPath>> \o CurveRail(g, 0 - 1, 0, segments) \o <<Stroke>>
               \o <<BeginPath>> \o CurveRail(g, 1, 0, segments) \o <<Stroke>>, "rail")

drawCurvedTrack(startX, startY, startDir, turnRight, height, trackColor, strutStyle) ==
    CurveCommands(CurveGeom(startX, startY, startDir, turnRight, height),
                  height, trackColor, strutStyle)

\* ------------------------------------------------------------------------
\* Slope
\* ------------------------------------------------------------------------
\* Endpoints (ground level), their heights and the ground-plane perpendicular
SlopeEdges(a, direction) ==
    CASE direction = "south" ->
           [fromEdge |-> a.north, toEdge |-> a.south, perp |-> UnitAlong(a.west, a.east)]
      [] direction = "north" ->
           [fromEdge |-> a.south, toEdge |-> a.north, perp |-> UnitAlong(a.west, a.east)]
      [] direction = "west" ->
           [fromEdge |-> a.east, toEdge |-> a.west, perp |-> UnitAlong(a.north, a.south)]
      [] OTHER ->
           [fromEdge |-> a.west, toEdge |-> a.east, perp |-> UnitAlong(a.north, a.south)]

\* Variant: the exit end takes the height of the entry end for its support
SlopeEnds_toHeightFromStart(e, startHeight, endHeight) ==
    [fromEdge |-> e.fromEdge, toEdge |-> e.toEdge, perp |-> e.perp,
     fromHeight |-> startHeight, toHeight |-> startHeight,
     p1 |-> Pt(e.fromEdge.x, e.fromEdge.y - startHeight * HEIGHT_UNIT),
     p2 |-> Pt(e.toEdge.x, e.toEdge.y - endHeight * HEIGHT_UNIT)]

\* The ends of the rail line: each edge raised by its own height
SlopeEnds(e, startHeight, endHeight) ==
    [fromEdge |-> e.fromEdge, toEdge |-> e.toEdge, perp |-> e.perp,
     fromHeight |-> startHeight, toHeight |-> endHeight,
     p1 |-> Pt(e.fromEdge.x, e.fromEdge.y - startHeight * HEIGHT_UNIT),
     p2 |-> Pt(e.toEdge.x, e.toEdge.y - endHeight * HEIGHT_UNIT)]

SlopeGeom(startX, startY, direction, startHeight, endHeight) ==
    SlopeEnds(SlopeEdges(TileAnchors(startX, startY, 0), direction), startHeight, endHeight)

\* Supports, crossties and rails of drawSlopeTrack on the geometry g
SlopeCommands(g, trackColor, strutStyle) ==
    LET trackDirX == g.p2.x - g.p1.x
        trackDirY == g.p2.y - g.p1.y
        trackLen == Hypot(trackDirX, trackDirY)
        perp == Perp(g.perp.x, g.perp.y)
        supportFrom == IF g.fromHeight > 0
                       THEN drawSupport(g.p1.x, g.fromEdge.y, g.fromHeight, perp, strutStyle)
                       ELSE <<>>
        supportTo == IF g.toHeight > 0
                     THEN drawSupport(g.p2.x, g.toEdge.y, g.toHeight, perp, strutStyle)
                     ELSE <<>>
        numTies == Max(3, trackLen \div TIE_SPACING)
    IN  supportFrom \o supportTo
        \o Tag(<<SetStrokeStyle(COLORS.tie), SetLineWidth(3 * PX), SetLineCap("butt")>>
               \o LineTies(g.p1.x, g.p1.y, trackDirX, trackDirY, g.perp, 0, numTies), "tie")
        \o Tag(<<SetStrokeStyle(trackColor), SetLineWidth(RAIL_WIDTH), SetLineCap("round")>>
               \o LineRails(g.p1, g.p2, g.perp), "rail")

drawSlopeTrack(startX, startY, direction, startHeight, endHeight, trackColor, strutStyle) ==
    SlopeCommands(SlopeGeom(startX, startY, direction, startHeight, endHeight),
                  trackColor, strutStyle)

\* ------------------------------------------------------------------------
\* Vertical loop
\* ------------------------------------------------------------------------
\* Math.sin and Math.cos at the sampled angles 2*pi*i/32, i = 0 .. 32
SinTable == <<0, 1951, 3827, 5556, 7071, 8315, 9239, 9808, 10000,
              9808, 9239, 8315, 7071, 5556, 3827, 1951, 0,
              0 - 1951, 0 - 3827, 0 - 5556, 0 - 7071, 0 - 8315, 0 - 9239, 0 - 9808, 0 - 10000,
              0 - 9808, 0 - 9239, 0 - 8315, 0 - 7071, 0 - 5556, 0 - 3827, 0 - 1951, 0>>
CosTable == <<10000, 9808, 9239, 8315, 7071, 5556, 3827, 1951, 0,
              0 - 1951, 0 - 3827, 0 - 5556, 0 - 7071, 0 - 8315, 0 - 9239, 0 - 9808, 0 - 10000,
              0 - 9808, 0 - 9239, 0 - 8315, 0 - 7071, 0 - 5556, 0 - 3827, 0 - 1951, 0,
              1951, 3827, 5556, 7071, 8315, 9239, 9808, 10000>>
SinAt(i) == SinTable[i + 1]
CosAt(i) == CosTable[i + 1]
\* the same at angle + 0.05 rad (cos 0.05 = 0.9988, sin 0.05 = 0.0500)
SinNext(i) == Div(SinAt(i) * 9988 + CosAt(i) * 500, UNIT)
CosNext(i) == Div(CosAt(i) * 9988 - SinAt(i) * 500, UNIT)

\* Math.max(28, loopHeight * HEIGHT_UNIT * 0.4)
LoopRadius(loopHeight) == Max(28 * PX, (loopHeight * HEIGHT_UNIT * 4) \div 10)

\* Variant: the forward displacement is taken from the cosine
getLoopPoint_cosForward(centerX, centerY, dir, loopRadius, sinA, cosA, railSide) ==
    LET railOffset == TRACK_WIDTH \div 2
        forwardOffset == Scale(cosA, loopRadius)
        heightOffset == Scale(UNIT - cosA, loopRadius)
        baseX == centerX + Scale(dir.dx, forwardOffset)
        baseY == centerY + Scale(dir.dy, forwardOffset) - heightOffset
        perpX == 0 - dir.dy
        perpY == dir.dx
    IN  Pt(baseX + Scale(perpX, railOffset) * railSide,
           baseY + Scale(perpY, railOffset) * railSide)

\* getLoopPoint, given the sine and cosine of the angle
getLoopPoint(centerX, centerY, dir, loopRadius, sinA, cosA, railSide) ==
    LET railOffset == TRACK_WIDTH \div 2
        forwardOffset == Scale(sinA, loopRadius)
        heightOffset == Scale(UNIT - cosA, loopRadius)
        baseX == centerX + Scale(dir.dx, forwardOffset)
        baseY == centerY + Scale(dir.dy, forwardOffset) - heightOffset
        perpX == 0 - dir.dy
        perpY == dir.dx
    IN  Pt(baseX + Scale(perpX, railOffset) * railSide,
           baseY + Scale(perpY, railOffset) * railSide)

\* Braces i .. numBraces of the loop's column, with X-bracing for wood
RECURSIVE LoopBraces(_, _, _, _, _, _, _)
LoopBraces(centerX, centerY, loopRadius, supportHeight, isWood, i, numBraces) ==
    IF i > numBraces THEN <<>>
    ELSE LET supportWidth == IF isWood THEN 5 * PX ELSE 4 * PX
             braceY == centerY - Div(supportHeight * i, numBraces + 1)
             nextBraceY == centerY - Div(supportHeight * (i + 1), numBraces + 1)
             braceWidth == IF isWood THEN Div(loopRadius * 5, 10) ELSE Div(loopRadius * 4, 10)
             accentColor == IF isWood THEN COLORS.woodAccent ELSE COLORS.metalMain
             xbrace == IF isWood /\ i < numBraces
                       THEN <<SetStrokeStyle(COLORS.woodAccent), SetLineWidth(150)>>
                            \o StrokeLine(centerX - braceWidth, braceY,
                                          centerX - supportWidth \div 2, nextBraceY)
                            \o StrokeLine(centerX - supportWidth \div 2, braceY,
                                          centerX - braceWidth, nextBraceY)
                            \o StrokeLine(centerX + braceWidth, braceY,
                                          centerX + supportWidth \div 2, nextBraceY)
                            \o StrokeLine(centerX + supportWidth \div 2, braceY,
                                          centerX + braceWidth, nextBraceY)
                       ELSE <<>>
         IN  <<SetStrokeStyle(accentColor), SetLineWidth(IF isWood THEN 2 * PX ELSE 150)>>
             \o StrokeLine(centerX - braceWidth, braceY, centerX + braceWidth, braceY)
             \o xbrace
             \o LoopBraces(centerX, centerY, loopRadius, supportHeight, isWood, i + 1, numBraces)

\* The loop's dedicated column (drawn unconditionally, before ties and rails)
LoopSupport(centerX, centerY, loopRadius, strutStyle) ==
    LET isWood == strutStyle = "wood"
        mainColor == IF isWood THEN COLORS.woodMain ELSE COLORS.metalMain
        darkColor == IF isWood THEN COLORS.woodDark ELSE COLORS.metalDark
        lightColor == IF isWood THEN COLORS.woodLight ELSE COLORS.metalLight
        supportWidth == IF isWood THEN 5 * PX ELSE 4 * PX
        supportHeight == loopRadius * 2 + 5 * PX
        numBraces == IF isWood THEN 5 ELSE 3
        l == centerX - supportWidth \div 2
        r == centerX + supportWidth \div 2
    IN  <<SetFillStyle(mainColor), SetStrokeStyle(lightColor), SetLineWidth(1 * PX),
          SetFillStyle(darkColor),
          BeginPath, MoveTo(l + 50, centerY + 50), LineTo(l + 50, centerY - supportHeight + 50),
          LineTo(r + 50, centerY - supportHeight + 50), LineTo(r + 50, centerY + 50),
          ClosePath, Fill,
          SetFillStyle(mainColor),
          BeginPath, MoveTo(l, centerY), LineTo(l, centerY - supportHeight),
          LineTo(r, centerY - supportHeight), LineTo(r, centerY),
          ClosePath, Fill, SetStrokeStyle(lightColor), Stroke>>
        \o LoopBraces(centerX, centerY, loopRadius, supportHeight, isWood, 1, numBraces)

\* Crossties at the even samples i, i+2, .. below numSegments
RECURSIVE LoopTies(_, _, _, _, _, _)
LoopTies(centerX, centerY, dir, loopRadius, i, numSegments) ==
    IF i >= numSegments THEN <<>>
    ELSE LET pt == getLoopPoint(centerX, centerY, dir, loopRadius, SinAt(i), CosAt(i), 0)
             nextPt == getLoopPoint(centerX, centerY, dir, loopRadius, SinNext(i), CosNext(i), 0)
             tangentX == nextPt.x - pt.x
             tangentY == nextPt.y - pt.y
             tangentLen == Hypot(tangentX, tangentY)
             tieX == Normalise(0 - tangentY, tangentLen)
             tieY == Normalise(tangentX, tangentLen)
             hx == Scale(tieX, (TIE_LENGTH * 4) \div 10)
             hy == Scale(tieY, (TIE_LENGTH * 4) \div 10)
             tie == IF tangentLen * 10 > 1
                    THEN StrokeLine(pt.x - hx, pt.y - hy, pt.x + hx, pt.y + hy)
                    ELSE <<>>
         IN  tie \o LoopTies(centerX, centerY, dir, loopRadius, i + 2, numSegments)

\* Points i .. numSegments of one rail
RECURSIVE LoopRail(_, _, _, _, _, _, _)
LoopRail(centerX, centerY, dir, loopRadius, railSide, i, numSegments) ==
    IF i > numSegments THEN <<>>
    ELSE LET pt == getLoopPoint(centerX, centerY, dir, loopRadius, SinAt(i), CosAt(i), railSide)
         IN  <<IF i = 0 THEN MoveTo(pt.x, pt.y) ELSE LineTo(pt.x, pt.y)>>
             \o LoopRail(centerX, centerY, dir, loopRadius, railSide, i + 1, numSegments)

\* Variant: the column is drawn only for a positive loopHeight, as the other
\* renderers place their supports
drawLoopTrack_conditionalColumn(startX, startY, direction, loopHeight, trackColor, strutStyle) ==
    LET centerX == startX + TILE_WIDTH \div 2
        centerY == startY + TILE_HEIGHT \div 2
        loopRadius == LoopRadius(loopHeight)
        numSegments == 32
        dir == DIRECTIONS[direction]
    IN  (IF loopHeight > 0
         THEN Tag(LoopSupport(centerX, centerY, loopRadius, strutStyle), "support")
         ELSE <<>>)
        \o Tag(<<SetStrokeStyle(COLORS.tie), SetLineWidth(2 * PX)>>
               \o LoopTies(centerX, centerY, dir, loopRadius, 0, numSegments), "tie")
        \o Tag(<<SetStrokeStyle(trackColor), SetLineWidth(RAIL_WIDTH), SetLineCap("round")>>
               \o <<BeginPath>>
               \o LoopRail(centerX, centerY, dir, loopRadius, 0 - 1, 0, numSegments)
               \o <<ClosePath, Stroke>>
               \o <<BeginPath>>
               \o LoopRail(centerX, centerY, dir, loopRadius, 1, 0, numSegments)
               \o <<ClosePath, Stroke>>, "rail")

drawLoopTrack(startX, startY, direction, loopHeight, trackColor, strutStyle) ==
    LET centerX == startX + TILE_WIDTH \div 2
        centerY == startY + TILE_HEIGHT \div 2
        loopRadius == LoopRadius(loopHeight)
        numSegments == 32
        dir == DIRECTIONS[direction]
    IN  Tag(LoopSupport(centerX, centerY, loopRadius, strutStyle), "support")
        \o Tag(<<SetStrokeStyle(COLORS.tie), SetLineWidth(2 * PX)>>
               \o LoopTies(centerX, centerY, dir, loopRadius, 0, numSegments), "tie")
        \o Tag(<<SetStrokeStyle(trackColor), SetLineWidth(RAIL_WIDTH), SetLineCap("round")>>
               \o <<BeginPath>>
               \o LoopRail(centerX, centerY, dir, loopRadius, 0 - 1, 0, numSegments)
               \o <<ClosePath, Stroke>>
               \o <<BeginPath>>
               \o LoopRail(centerX, centerY, dir, loopRadius, 1, 0, numSegments)
               \o <<ClosePath, Stroke>>, "rail")

\* ------------------------------------------------------------------------
\* Chain lift
\* ------------------------------------------------------------------------
\* The remainder operator of the language: the sign follows the dividend
Rem(a, b) == IF a >= 0 THEN a % b ELSE 0 - ((0 - a) % b)

\* Variant: the tick is not reduced modulo the link spacing
AnimOffset_unwrapped(tickOffset, linkSpacing) == tickOffset * PX

\* tickOffset % linkSpacing, in coordinate units
AnimOffset(tickOffset, linkSpacing) == Rem(tickOffset, linkSpacing) * PX

\* Links i .. numLinks between (x1,y1) and (x2,y2)
RECURSIVE ChainLinks(_, _, _, _, _, _, _, _)
ChainLinks(x1, y1, x2, y2, length, animOffset, i, numLinks) ==
    IF i > numLinks THEN <<>>
    ELSE LET linkSpacing == 4
             d == i * linkSpacing * PX + animOffset
             link == IF d > length THEN <<>>
                     ELSE <<BeginPath,
                            Arc(x1 + Div((x2 - x1) * d, length),
                                y1 + Div((y2 - y1) * d, length), 75),
                            Fill>>
         IN  link \o ChainLinks(x1, y1, x2, y2, length, animOffset, i + 1, numLinks)

drawChainLift(startX, startY, direction, startHeight, endHeight, tickOffset) ==
    LET dir == DIRECTIONS[direction]
        length == (TILE_WIDTH * 7) \div 10
        centerX == startX + TILE_WIDTH \div 2
        centerY == startY + TILE_HEIGHT \div 2
        halfLen == length \div 2
        x1 == centerX - Scale(dir.dx, halfLen)
        y1 == centerY - Scale(dir.dy, halfLen) - startHeight * HEIGHT_UNIT
        x2 == centerX + Scale(dir.dx, halfLen)
        y2 == centerY + Scale(dir.dy, halfLen) - endHeight * HEIGHT_UNIT
        linkSpacing == 4
        numLinks == length \div (linkSpacing * PX)
    IN  Tag(<<SetFillStyle("#1f2937")>>
            \o ChainLinks(x1, y1, x2, y2, length, AnimOffset(tickOffset, linkSpacing), 0, numLinks),
            "link")

\* ------------------------------------------------------------------------
\* The state machine: one draw call on two surfaces
\* ------------------------------------------------------------------------
\* The renderers keep no state of their own: a behaviour is a surface handed
\* over in some paint state, the arguments of a call, and the call itself.
\* The call is made on two surfaces that differ in the inherited paint state.
Cells == (0 .. MaxGrid) \X (0 .. MaxGrid)
Heights == (0 - 1) .. MaxHeight
\* loop heights reach past 3.5, where the radius leaves its floor of 28 px
LoopHeights == (0 - 1) .. (MaxHeight + 4)
Ticks == 0 .. MaxTick

\* Paint states a surface may be handed over with (a path left open by the
\* caller included)
InitialPaint ==
    { [strokeStyle |-> "#000000", fillStyle |-> "#000000", lineWidth |-> 1 * PX,
       lineCap |-> "butt", path |-> <<<<"M", 0, 0>>>>, ops |-> <<>>],
      [strokeStyle |-> "#ff0000", fillStyle |-> "#00ff00", lineWidth |-> 5 * PX,
       lineCap |-> "square", path |-> <<<<"M", 0, 0>>>>, ops |-> <<>>] }

Call(f, c, d, r, ha, hb, t, p, s) ==
    [fn |-> f, cell |-> c, direction |-> d, turnRight |-> r,
     h1 |-> ha, h2 |-> hb, tick |-> t, perp |-> p, style |-> s]

\* Argument sets of the six entry points
StraightCalls ==
    { Call("drawStraightTrack", c, d, FALSE, h, h, 0, Undefined, s) :
        c \in Cells, d \in TrackDirection, h \in Heights, s \in StrutStyle }
CurvedCalls ==
    { Call("drawCurvedTrack", c, d, r, h, h, 0, Undefined, s) :
        c \in Cells, d \in TrackDirection, r \in BOOLEAN, h \in Heights, s \in StrutStyle }
SlopeCalls ==
    { Call("drawSlopeTrack", c, d, FALSE, hs, he, 0, Undefined, s) :
        c \in Cells, d \in TrackDirection, hs \in Heights, he \in Heights, s \in StrutStyle }
LoopCalls ==
    { Call("drawLoopTrack", c, d, FALSE, h, h, 0, Undefined, s) :
        c \in Cells, d \in TrackDirection, h \in LoopHeights, s \in StrutStyle }
ChainLiftCalls ==
    { Call("drawChainLift", c, d, FALSE, hs, he, k, Undefined, "metal") :
        c \in Cells, d \in TrackDirection, hs \in Heights, he \in Heights, k \in Ticks }
SupportCalls ==
    { Call("drawSupport", c, "north", FALSE, h, h, 0, p, s) :
        c \in Cells, h \in Heights, s \in StrutStyle,
        p \in {Undefined, Perp(8575, 0 - 5145), Perp(8575, 5145)} }

ProjectCalls ==
    { Call("gridToScreen3D", c, "north", FALSE, h, h, 0, Undefined, "metal") :
        c \in Cells, h \in Heights }

Origin(cell) == gridToScreen(cell[1], cell[2])

\* Delay of the reset timer, in milliseconds
TIMEOUT_MS == 2000

\* The hook after the first render of its component
useCopyRoomLink ==
    /\ copied = FALSE
    /\ timeoutRef = {}
    /\ timers = {}
    /\ mounted = TRUE
    /\ sinceClick = TIMEOUT_MS
    /\ clicks = 0

Init ==
    /\ roomCode = ""
    /\ hasClipboard = TRUE
    /\ useCopyRoomLink
    /\ ctx \in InitialPaint
    /\ ctx2 \in InitialPaint
    /\ call \in StraightCalls \cup CurvedCalls \cup SlopeCalls \cup LoopCalls
                \cup ChainLiftCalls \cup SupportCalls \cup ProjectCalls
    /\ pc = "call"
    /\ ret = Pt(0, 0)

\* The commands are executed on both surfaces.
Issue(cmds) ==
    /\ ctx' = Run(ctx, cmds)
    /\ ctx2' = Run(ctx2, cmds)
    /\ pc' = "done"
    /\ UNCHANGED <<call, ret>>
    /\ UNCHANGED hookVars

DrawStraightTrack ==
    /\ pc = "call"
    /\ call.fn = "drawStraightTrack"
    /\ Issue(drawStraightTrack(Origin(call.cell).x, Origin(call.cell).y, call.direction,
                               call.h1, COLORS.rail, call.style))

DrawCurvedTrack ==
    /\ pc = "call"
    /\ call.fn = "drawCurvedTrack"
    /\ Issue(drawCurvedTrack(Origin(call.cell).x, Origin(call.cell).y, call.direction,
                             call.turnRight, call.h1, COLORS.rail, call.style))

DrawSlopeTrack ==
    /\ pc = "call"
    /\ call.fn = "drawSlopeTrack"
    /\ Issue(drawSlopeTrack(Origin(call.cell).x, Origin(call.cell).y, call.direction,
                            call.h1, call.h2, COLORS.rail, call.style))

DrawLoopTrack ==
    /\ pc = "call"
    /\ call.fn = "drawLoopTrack"
    /\ Issue(drawLoopTrack(Origin(call.cell).x, Origin(call.cell).y, call.direction,
                           call.h1, COLORS.rail, call.style))

DrawChainLift ==
    /\ pc = "call"
    /\ call.fn = "drawChainLift"
    /\ Issue(drawChainLift(Origin(call.cell).x, Origin(call.cell).y, call.direction,
                           call.h1, call.h2, call.tick))

\* drawSupport called under the centre of the tile
DrawSupport ==
    /\ pc = "call"
    /\ call.fn = "drawSupport"
    /\ Issue(drawSupport(Origin(call.cell).x + TILE_WIDTH \div 2,
                         Origin(call.cell).y + TILE_HEIGHT \div 2,
                         call.h1, call.perp, call.style))

\* gridToScreen3D applied to a cell and a height; ret is the point returned
GridToScreen3D ==
    /\ pc = "call"
    /\ call.fn = "gridToScreen3D"
    /\ ret' = gridToScreen3D(call.cell[1], call.cell[2], call.h1)
    /\ pc' = "done"
    /\ UNCHANGED <<ctx, ctx2, call>>
    /\ UNCHANGED hookVars

Next ==
    \/ DrawStraightTrack
    \/ DrawCurvedTrack
    \/ DrawSlopeTrack
    \/ DrawLoopTrack
    \/ DrawChainLift
    \/ DrawSupport
    \/ GridToScreen3D

Spec == Init /\ [][Next]_vars

\* ------------------------------------------------------------------------
\* useCopyRoomLink (src/unnamed/part_000)
\* ------------------------------------------------------------------------
Min(a, b) == IF a <= b THEN a ELSE b

\* Room codes: the empty string stands for every falsy argument (null,
\* undefined, "").
RoomCodes == {"", "ABCD"}

\* setTimeout(callback, ms): a new pending timer of the host
Timer(handle, ms) == [id |-> handle, remaining |-> ms]

\* clearTimeout(handle) for the handle kept in the ref, when there is one
clearTimeout(ref, pending) == { t \in pending : t.id \notin ref }

HookInit ==
    /\ roomCode \in RoomCodes
    /\ hasClipboard \in BOOLEAN
    /\ useCopyRoomLink
    /\ ctx = CHOOSE p \in InitialPaint : TRUE
    /\ ctx2 = ctx
    /\ call = CHOOSE c \in ProjectCalls : TRUE
    /\ pc = "done"
    /\ ret = Pt(0, 0)

\* The handler without the clearTimeout of the earlier timer
HandleCopyRoomLink_keepsEarlierTimer ==
    /\ mounted
    /\ clicks < MaxClicks
    /\ clicks' = clicks + 1
    /\ IF roomCode = "" \/ ~hasClipboard
       THEN UNCHANGED <<copied, timeoutRef, timers, sinceClick>>
       ELSE /\ copied' = TRUE
            /\ timers' = timers \cup {Timer(clicks + 1, TIMEOUT_MS)}
            /\ timeoutRef' = {clicks + 1}
            /\ sinceClick' = 0
    /\ UNCHANGED <<roomCode, hasClipboard, mounted>>
    /\ UNCHANGED trackVars

\* handleCopyRoomLink(): returns at once without a room code; throws at
\* navigator.clipboard.writeText where the host has no clipboard; otherwise
\* sets copied, cancels the timer in the ref and arms a new one.
HandleCopyRoomLink ==
    /\ mounted
    /\ clicks < MaxClicks
    /\ clicks' = clicks + 1
    /\ IF roomCode = "" \/ ~hasClipboard
       THEN UNCHANGED <<copied, timeoutRef, timers, sinceClick>>
       ELSE /\ copied' = TRUE
            /\ timers' = clearTimeout(timeoutRef, timers)
                             \cup {Timer(clicks + 1, TIMEOUT_MS)}
            /\ timeoutRef' = {clicks + 1}
            /\ sinceClick' = 0
    /\ UNCHANGED <<roomCode, hasClipboard, mounted>>
    /\ UNCHANGED trackVars

\* TickMs milliseconds pass.
Tick ==
    /\ sinceClick < TIMEOUT_MS \/ \E t \in timers : t.remaining > 0
    /\ timers' = { Timer(t.id, Max(0, t.remaining - TickMs)) : t \in timers }
    /\ sinceClick' = Min(TIMEOUT_MS, sinceClick + TickMs)
    /\ UNCHANGED <<roomCode, hasClipboard, copied, timeoutRef, mounted, clicks>>
    /\ UNCHANGED trackVars

\* The host runs the callback of a timer that is due.
TimerFires ==
    /\ \E t \in timers :
          /\ t.remaining = 0
          /\ timers' = timers \ {t}
    /\ copied' = FALSE
    /\ timeoutRef' = {}
    /\ UNCHANGED <<roomCode, hasClipboard, mounted, sinceClick, clicks>>
    /\ UNCHANGED trackVars

\* The component renders again with another room code.
Render ==
    /\ mounted
    /\ roomCode' \in RoomCodes \ {roomCode}
    /\ UNCHANGED <<hasClipboard, copied, timeoutRef, timers, mounted,
                   sinceClick, clicks>>
    /\ UNCHANGED trackVars

\* An unmount whose cleanup leaves the pending timer alone
Unmount_keepsTimer ==
    /\ mounted
    /\ mounted' = FALSE
    /\ UNCHANGED <<roomCode, hasClipboard, copied, timeoutRef, timers,
                   sinceClick, clicks>>
    /\ UNCHANGED trackVars

\* The effect's cleanup, run when the component unmounts.
Unmount ==
    /\ mounted
    /\ mounted' = FALSE
    /\ timers' = clearTimeout(timeoutRef, timers)
    /\ UNCHANGED <<roomCode, hasClipboard, copied, timeoutRef, sinceClick, clicks>>
    /\ UNCHANGED trackVars

HookNext ==
    \/ HandleCopyRoomLink
    \/ Tick
    \/ TimerFires
    \/ Render
    \/ Unmount

\* Time passes and due timers are run by the host's event loop.
HookSpec ==
    /\ HookInit
    /\ [][HookNext]_vars
    /\ WF_vars(Tick)
    /\ WF_vars(TimerFires)

TypeOK ==
    /\ pc \in {"call", "done"}
    /\ ctx.lineCap \in {"butt", "round", "square"}
    /\ ctx2.lineCap \in {"butt", "round", "square"}

\* ------------------------------------------------------------------------
\* Reading the log
\* ------------------------------------------------------------------------
Drawn(fn) == pc = "done" /\ call.fn = fn

PartOps(c, part) == SelectSeq(c.ops, LAMBDA o : o.part = part)

\* The points of a logged path (moveTo and lineTo), in order
PathPoints(op) == SelectSeq(op.path, LAMBDA e : e[1] \in {"M", "L"})
FirstPoint(op) == Pt(PathPoints(op)[1][2], PathPoints(op)[1][3])
LastPoint(op) == Pt(PathPoints(op)[Len(PathPoints(op))][2], PathPoints(op)[Len(PathPoints(op))][3])
PointAt(op, i) == Pt(PathPoints(op)[i][2], PathPoints(op)[i][3])

Mid(p, q) == Pt((p.x + q.x) \div 2, (p.y + q.y) \div 2)
Dist2(p, q) == (p.x - q.x) * (p.x - q.x) + (p.y - q.y) * (p.y - q.y)

\* The centreline between the two logged rails, at its start and at its end
RailStart == Mid(FirstPoint(PartOps(ctx, "rail")[1]), FirstPoint(PartOps(ctx, "rail")[2]))
RailEnd == Mid(LastPoint(PartOps(ctx, "rail")[1]), LastPoint(PartOps(ctx, "rail")[2]))

\* The four edge midpoints of the tile at origin o, raised by height
EdgeMidpoints(o, height) ==
    { Pt(o.x + TILE_WIDTH \div 4, o.y + TILE_HEIGHT \div 4 - height * HEIGHT_UNIT),
      Pt(o.x + (3 * TILE_WIDTH) \div 4, o.y + TILE_HEIGHT \div 4 - height * HEIGHT_UNIT),
      Pt(o.x + (3 * TILE_WIDTH) \div 4, o.y + (3 * TILE_HEIGHT) \div 4 - height * HEIGHT_UNIT),
      Pt(o.x + TILE_WIDTH \div 4, o.y + (3 * TILE_HEIGHT) \div 4 - height * HEIGHT_UNIT) }

SegmentRenderers == {"drawStraightTrack", "drawCurvedTrack", "drawSlopeTrack", "drawLoopTrack"}

\* ------------------------------------------------------------------------
\* C1
\* ------------------------------------------------------------------------
\* C1: every segment renderer (straight, turn, slope, loop) starts and ends
\* its rail centreline at one of the four edge midpoints of its tile, raised
\* by the height of that end.
C1_RailsEndAtEdgeMidpoints ==
    (pc = "done" /\ call.fn \in SegmentRenderers) =>
        /\ RailStart \in EdgeMidpoints(Origin(call.cell), call.h1)
        /\ RailEnd \in EdgeMidpoints(Origin(call.cell), call.h2)

\* The same for the three renderers other than the loop (holds).
C1_StraightTurnSlope ==
    (pc = "done" /\ call.fn \in SegmentRenderers \ {"drawLoopTrack"}) =>
        /\ RailStart \in EdgeMidpoints(Origin(call.cell), call.h1)
        /\ RailEnd \in EdgeMidpoints(Origin(call.cell), call.h2)

\* ------------------------------------------------------------------------
\* C2
\* ------------------------------------------------------------------------
Opposite(e) ==
    CASE e = "north" -> "south" [] e = "south" -> "north"
      [] e = "east" -> "west" [] OTHER -> "east"

\* The grid cell on the other side of an edge of the tile
Across(cell, e) ==
    CASE e = "south" -> <<cell[1] + 1, cell[2]>>
      [] e = "north" -> <<cell[1] - 1, cell[2]>>
      [] e = "east"  -> <<cell[1], cell[2] - 1>>
      [] OTHER       -> <<cell[1], cell[2] + 1>>

\* The edges a segment enters and leaves through
EntryEdge(fn, d) ==
    CASE fn = "drawStraightTrack" -> (IF d \in {"north", "south"} THEN "north" ELSE "east")
      [] fn = "drawCurvedTrack" -> d
      [] OTHER -> Opposite(d)
ExitEdge(fn, d, r) ==
    CASE fn = "drawStraightTrack" -> (IF d \in {"north", "south"} THEN "south" ELSE "west")
      [] fn = "drawCurvedTrack" ->
           (CASE d = "north" -> (IF r THEN "east" ELSE "west")
              [] d = "east"  -> (IF r THEN "south" ELSE "north")
              [] d = "south" -> (IF r THEN "west" ELSE "east")
              [] OTHER       -> (IF r THEN "north" ELSE "south"))
      [] OTHER -> d

\* The two ends of the centreline the renderer fn computes in a cell
Ends(fn, cell, d, r, ha, hb) ==
    LET o == Origin(cell)
        pts == CASE fn = "drawStraightTrack" ->
                      <<StraightGeom(o.x, o.y, d, ha).fromEdge, StraightGeom(o.x, o.y, d, ha).toEdge>>
                 [] fn = "drawCurvedTrack" ->
                      <<CurveGeom(o.x, o.y, d, r, ha).fromEdge, CurveGeom(o.x, o.y, d, r, ha).toEdge>>
                 [] OTHER ->
                      <<SlopeGeom(o.x, o.y, d, ha, hb).p1, SlopeGeom(o.x, o.y, d, ha, hb).p2>>
    IN  { [edge |-> EntryEdge(fn, d), height |-> ha, pt |-> pts[1]],
          [edge |-> ExitEdge(fn, d, r), height |-> hb, pt |-> pts[2]] }

\* Every end a straight, turn or slope segment can have in a cell
AllEnds(cell, hs) ==
    UNION { Ends("drawStraightTrack", cell, d, FALSE, h, h) : d \in TrackDirection, h \in hs }
    \cup UNION { Ends("drawCurvedTrack", cell, d, r, h, h) :
                    d \in TrackDirection, r \in BOOLEAN, h \in hs }
    \cup UNION { Ends("drawSlopeTrack", cell, d, FALSE, ha, hb) :
                    d \in TrackDirection, ha \in hs, hb \in hs }

\* The two ends of the drawn segment, read from the logged rails
DrawnEnds ==
    { [edge |-> EntryEdge(call.fn, call.direction), height |-> call.h1, pt |-> RailStart],
      [edge |-> ExitEdge(call.fn, call.direction, call.turnRight), height |-> call.h2,
       pt |-> RailEnd] }

\* C2: the point where a drawn straight, turn or slope segment meets an edge
\* of its cell is the point where any segment of the adjoining cell meets the
\* opposite edge at the same height (tile origins given by gridToScreen).
C2_EdgeContinuity ==
    (pc = "done" /\ call.fn \in SegmentRenderers \ {"drawLoopTrack"}) =>
        \A e \in DrawnEnds :
            \A n \in AllEnds(Across(call.cell, e.edge), {call.h1, call.h2}) :
                (n.edge = Opposite(e.edge) /\ n.height = e.height) => n.pt = e.pt

\* A slope rising to height 1 at its south edge has been drawn; the adjoining
\* cell holds level segments at height 1.
C2_Witness ==
    /\ Drawn("drawSlopeTrack")
    /\ call.direction = "south" /\ call.h1 = 0 /\ call.h2 = 1
    /\ \E n \in AllEnds(Across(call.cell, "south"), {1}) : n.edge = "north" /\ n.pt = RailEnd

\* ------------------------------------------------------------------------
\* C3
\* ------------------------------------------------------------------------
\* The straight track of the same tile and height that runs through edge e
StraightThrough(e) ==
    StraightGeom(Origin(call.cell).x, Origin(call.cell).y, e, call.h1)

\* The rail ends the straight track through edge e draws
StraightRailEnds(e) ==
    LET rails == SelectSeq(drawStraightTrack(Origin(call.cell).x, Origin(call.cell).y, e,
                                             call.h1, COLORS.rail, call.style),
                           LAMBDA k : k.part = "rail" /\ k.c \in {"moveTo", "lineTo"})
    IN  { Pt(rails[i].x, rails[i].y) : i \in DOMAIN rails }

Cross(u, v) == u.x * v.y - u.y * v.x

CurveOfCall ==
    CurveGeom(Origin(call.cell).x, Origin(call.cell).y, call.direction, call.turnRight, call.h1)

\* The tangent of the drawn turn is parallel to the straight centreline at both ends
C3_TangentParallel ==
    Drawn("drawCurvedTrack") =>
        LET g == CurveOfCall
            sIn == StraightThrough(EntryEdge(call.fn, call.direction))
            sOut == StraightThrough(ExitEdge(call.fn, call.direction, call.turnRight))
        IN  /\ Cross(QuadTangent(g.fromEdge, g.center, g.toEdge, 0, 16),
                     Pt(sIn.toEdge.x - sIn.fromEdge.x, sIn.toEdge.y - sIn.fromEdge.y)) = 0
            /\ Cross(QuadTangent(g.fromEdge, g.center, g.toEdge, 16, 16),
                     Pt(sOut.toEdge.x - sOut.fromEdge.x, sOut.toEdge.y - sOut.fromEdge.y)) = 0

\* The rail points of the drawn turn at t = 0 and t = 1 are rail ends of the straight track
C3_RailsMeet ==
    Drawn("drawCurvedTrack") =>
        \A i \in {1, 2} :
            /\ FirstPoint(PartOps(ctx, "rail")[i])
                 \in StraightRailEnds(EntryEdge(call.fn, call.direction))
            /\ LastPoint(PartOps(ctx, "rail")[i])
                 \in StraightRailEnds(ExitEdge(call.fn, call.direction, call.turnRight))

\* C3: at t = 0 and t = 1 the turn's tangent is parallel to the centreline of
\* the straight track through that edge midpoint, and its two rail points are
\* the rail ends of that straight track.
C3_TurnMeetsStraight == C3_TangentParallel /\ C3_RailsMeet

\* ------------------------------------------------------------------------
\* C4
\* ------------------------------------------------------------------------
\* C4: drawSupport with height <= 0 issues no path, stroke or fill operation
\* and leaves the paint state (strokeStyle, fillStyle, lineWidth, lineCap) and
\* the current path of the surface as they were, for both strut styles and
\* with or without a perpendicular.
C4_SupportNoOp ==
    [][(DrawSupport /\ call.h1 <= 0) => (ctx' = ctx /\ ctx2' = ctx2)]_vars

\* drawSupport has returned from a call with height <= 0, wood style, with a
\* perpendicular, on a surface handed over with square caps
C4_Witness ==
    /\ Drawn("drawSupport")
    /\ call.h1 <= 0 /\ call.style = "wood" /\ call.perp.def
    /\ ctx.lineCap = "square" /\ ctx.ops = <<>>

\* ------------------------------------------------------------------------
\* C5
\* ------------------------------------------------------------------------
NotElevated == call.h1 <= 0 /\ call.h2 <= 0

OnlyTiesAndRails(c) ==
    /\ PartOps(c, "tie") # <<>>
    /\ PartOps(c, "rail") # <<>>
    /\ \A i \in DOMAIN c.ops : c.ops[i].part \in {"tie", "rail"}

\* C5 as claimed: every segment renderer (straight, turn, slope and loop)
\* called with no positive height draws no support, only crossties and rails.
C5_NoSupportWhenNotElevated ==
    (pc = "done" /\ call.fn \in SegmentRenderers /\ NotElevated) => OnlyTiesAndRails(ctx)

\* C5 as amended: straight, turn and slope called with no positive height
\* draw only crossties and rails; the loop draws its own column before its
\* crossties and rails at every loopHeight, zero and negative included.
C5_NoSupportExceptLoop ==
    /\ (pc = "done" /\ call.fn \in SegmentRenderers \ {"drawLoopTrack"} /\ NotElevated)
           => OnlyTiesAndRails(ctx)
    /\ Drawn("drawLoopTrack") =>
           /\ PartOps(ctx, "support") # <<>>
           /\ ctx.ops[1].part = "support"
           /\ PartOps(ctx, "tie") # <<>>
           /\ PartOps(ctx, "rail") # <<>>

\* A loop of height 0 has been drawn with its column
C5_Witness ==
    /\ Drawn("drawLoopTrack")
    /\ call.h1 = 0
    /\ PartOps(ctx, "support") # <<>>

\* ------------------------------------------------------------------------
\* C6
\* ------------------------------------------------------------------------
\* What an operation paints with: a stroke uses stroke colour, line width
\* and cap; a fill uses the fill colour
Effective(o) ==
    IF o.op = "stroke"
    THEN <<o.op, o.part, o.path, o.strokeStyle, o.lineWidth, o.lineCap>>
    ELSE <<o.op, o.part, o.path, o.fillStyle>>

PaintLog(c) == [i \in DOMAIN c.ops |-> Effective(c.ops[i])]

\* C6: a draw call made on two surfaces that differ only in the inherited
\* strokeStyle, fillStyle, lineWidth and lineCap issues the same stroke and
\* fill operations with the same paint in effect at each of them.
C6_NoInheritedPaint ==
    pc = "done" => PaintLog(ctx) = PaintLog(ctx2)

\* The same with the cap style left out of the comparison (holds: the cap
\* style is the only inherited setting that reaches an operation).
C6_ExceptLineCap ==
    pc = "done" =>
        [i \in DOMAIN ctx.ops |-> [ctx.ops[i] EXCEPT !.lineCap = "", !.strokeStyle =
                                      IF ctx.ops[i].op = "stroke" THEN @ ELSE "",
                                   !.lineWidth = IF ctx.ops[i].op = "stroke" THEN @ ELSE 0,
                                   !.fillStyle = IF ctx.ops[i].op = "stroke" THEN "" ELSE @]]
        = [i \in DOMAIN ctx2.ops |-> [ctx2.ops[i] EXCEPT !.lineCap = "", !.strokeStyle =
                                      IF ctx2.ops[i].op = "stroke" THEN @ ELSE "",
                                   !.lineWidth = IF ctx2.ops[i].op = "stroke" THEN @ ELSE 0,
                                   !.fillStyle = IF ctx2.ops[i].op = "stroke" THEN "" ELSE @]]

\* The renderers whose output does not depend on the inherited paint
C6_IndependentRenderers ==
    (pc = "done" /\ call.fn \notin {"drawCurvedTrack", "drawLoopTrack"}) =>
        PaintLog(ctx) = PaintLog(ctx2)

\* ------------------------------------------------------------------------
\* C7
\* ------------------------------------------------------------------------
\* The link positions a surface has logged
LinkPositions(c) == { PartOps(c, "link")[i].path : i \in DOMAIN PartOps(c, "link") }

\* The call of the behaviour repeated with another tickOffset
ChainLiftAt(tickOffset) ==
    drawChainLift(Origin(call.cell).x, Origin(call.cell).y, call.direction,
                  call.h1, call.h2, tickOffset)

\* C7: drawChainLift draws the same set of link positions with tickOffset k
\* and with tickOffset k + 4, and the same as with k modulo 4.
C7_PhaseWraps ==
    Drawn("drawChainLift") =>
        /\ LinkPositions(ctx) = LinkPositions(Run(ctx, ChainLiftAt(call.tick + 4)))
        /\ LinkPositions(ctx) = LinkPositions(Run(ctx, ChainLiftAt(call.tick % 4)))

\* The chain lift has been drawn at tickOffset 0 with all its 12 links, where
\* tickOffset 4 draws the same
C7_Witness ==
    /\ Drawn("drawChainLift")
    /\ call.tick = 0
    /\ Cardinality(LinkPositions(ctx)) = 12
    /\ LinkPositions(ctx) = LinkPositions(Run(ctx, ChainLiftAt(4)))

\* ------------------------------------------------------------------------
\* C8
\* ------------------------------------------------------------------------
\* The five anchors of the tile of the call
AnchorsOfCall ==
    LET a == TileAnchors(Origin(call.cell).x, Origin(call.cell).y, call.h1 * HEIGHT_UNIT)
    IN  {a.north, a.east, a.south, a.west, a.center}

TieMid(i) == Mid(FirstPoint(PartOps(ctx, "tie")[i]), LastPoint(PartOps(ctx, "tie")[i]))

\* C8: the quadratic evaluation of drawCurvedTrack gives fromEdge at t = 0
\* and toEdge at t = 1, in the crosstie loop (first and last tie) and in the
\* rail loop (first and last rail point), whatever the control points.
C8_QuadraticEndpoints ==
    Drawn("drawCurvedTrack") =>
        /\ TieMid(1) = CurveOfCall.fromEdge
        /\ TieMid(Len(PartOps(ctx, "tie"))) = CurveOfCall.toEdge
        /\ RailStart = CurveOfCall.fromEdge
        /\ RailEnd = CurveOfCall.toEdge
        /\ \A f \in AnchorsOfCall : \A c \in AnchorsOfCall : \A to \in AnchorsOfCall :
             \A n \in {4, 16} :
               /\ QuadPoint(f, c, to, 0, n) = f
               /\ QuadPoint(f, c, to, n, n) = to

\* A right turn entered from the north has been drawn, with five ties
C8_Witness ==
    /\ Drawn("drawCurvedTrack")
    /\ call.direction = "north" /\ call.turnRight
    /\ Len(PartOps(ctx, "tie")) = 5
    /\ RailStart = CurveOfCall.fromEdge
    /\ RailEnd = CurveOfCall.toEdge
    /\ CurveOfCall.fromEdge # CurveOfCall.toEdge

\* ------------------------------------------------------------------------
\* C9
\* ------------------------------------------------------------------------
\* The squared length of a unit vector is UNIT * UNIT, up to rounding
UnitLength(p) == Abs(p.x * p.x + p.y * p.y - UNIT * UNIT) * 1000 <= UNIT * UNIT

\* The squared distance d2 is the square of the length len, up to rounding
LengthIs(d2, len) == Abs(d2 - len * len) * 100 <= len * len

TangentAt(i, n) == QuadTangent(CurveOfCall.fromEdge, CurveOfCall.center, CurveOfCall.toEdge, i, n)

\* C9: at every sampled parameter of a drawn turn (i/4 for the ties, i/16 for
\* the rails) the tangent is not zero and the perpendicular is a unit vector:
\* every tie has length TIE_LENGTH and the rails are TRACK_WIDTH apart.
C9_TangentNonDegenerate ==
    Drawn("drawCurvedTrack") =>
        /\ \A n \in {4, 16} : \A i \in 0 .. n :
             /\ TangentAt(i, n) # Pt(0, 0)
             /\ Hypot(TangentAt(i, n).x, TangentAt(i, n).y) > 0
             /\ PerpOf(TangentAt(i, n)).x # NaN
             /\ PerpOf(TangentAt(i, n)).y # NaN
             /\ UnitLength(PerpOf(TangentAt(i, n)))
        /\ Len(PartOps(ctx, "tie")) = 5
        /\ \A i \in 1 .. 5 :
             LengthIs(Dist2(FirstPoint(PartOps(ctx, "tie")[i]),
                            LastPoint(PartOps(ctx, "tie")[i])), TIE_LENGTH)
        /\ \A i \in 1 .. 17 :
             LengthIs(Dist2(PointAt(PartOps(ctx, "rail")[1], i),
                            PointAt(PartOps(ctx, "rail")[2], i)), TRACK_WIDTH)

\* A left turn entered from the east has been drawn, with 17 points a rail
C9_Witness ==
    /\ Drawn("drawCurvedTrack")
    /\ call.direction = "east" /\ ~call.turnRight
    /\ Len(PathPoints(PartOps(ctx, "rail")[1])) = 17
    /\ UnitLength(PerpOf(TangentAt(8, 16)))

\* ------------------------------------------------------------------------
\* C10
\* ------------------------------------------------------------------------
TileCentre == Pt(Origin(call.cell).x + TILE_WIDTH \div 2, Origin(call.cell).y + TILE_HEIGHT \div 2)

\* C10: the first (angle 0) and the last (i = 32) sampled point of each rail
\* of a drawn loop are the same point, and the centreline there is the tile
\* centre: no forward and no height displacement.
C10_LoopCloses ==
    Drawn("drawLoopTrack") =>
        /\ \A r \in {1, 2} :
             /\ Len(PathPoints(PartOps(ctx, "rail")[r])) = 33
             /\ PointAt(PartOps(ctx, "rail")[r], 1) = PointAt(PartOps(ctx, "rail")[r], 33)
             /\ PointAt(PartOps(ctx, "rail")[r], 17) # PointAt(PartOps(ctx, "rail")[r], 1)
        /\ RailStart = TileCentre
        /\ RailEnd = TileCentre

\* A loop above the floor of its radius has been drawn towards the west
C10_Witness ==
    /\ Drawn("drawLoopTrack")
    /\ call.direction = "west"
    /\ LoopRadius(call.h1) > 28 * PX
    /\ PointAt(PartOps(ctx, "rail")[1], 1) = PointAt(PartOps(ctx, "rail")[1], 33)

\* ------------------------------------------------------------------------
\* C11
\* ------------------------------------------------------------------------
\* C11: for every cell and heights h2 > h1, gridToScreen3D at h2 returns the
\* same x and a smaller y than at h1, smaller by (h2 - h1) * HEIGHT_UNIT.
C11_HeightMonotone ==
    Drawn("gridToScreen3D") =>
        \A h \in (call.h1 + 1) .. (MaxHeight + 1) :
            LET p == gridToScreen3D(call.cell[1], call.cell[2], h)
            IN  /\ p.y < ret.y
                /\ p.x = ret.x
                /\ ret.y - p.y = (h - call.h1) * HEIGHT_UNIT

\* Cell (1, 0) has been projected at height 0 to (32, 19.2); at height 1 it
\* lies 20 px further up
C11_Witness ==
    /\ Drawn("gridToScreen3D")
    /\ call.cell = <<1, 0>> /\ call.h1 = 0
    /\ ret = Pt(32 * PX, 1920)
    /\ gridToScreen3D(1, 0, 1) = Pt(32 * PX, 1920 - 20 * PX)

\* ------------------------------------------------------------------------
\* C12
\* ------------------------------------------------------------------------
\* The scenario: drawStraightTrack at origin (0,0), direction south, height 0
Scenario12 ==
    /\ Drawn("drawStraightTrack")
    /\ call.cell = <<0, 0>> /\ call.direction = "south" /\ call.h1 = 0

\* The left rail is the first rail stroked
LeftRail == PartOps(ctx, "rail")[1]

\* C12 as claimed: in the scenario the left rail is stroked from (20, 13.6)
\* to (52, 28.4).
C12_LeftRailAsStated ==
    Scenario12 =>
        /\ FirstPoint(LeftRail) = Pt(20 * PX, 1360)
        /\ LastPoint(LeftRail) = Pt(52 * PX, 2840)

\* C12 as amended: in the scenario the left rail is stroked from
\* (12.57, 11.66) to (44.57, 30.86): the line between the north and south
\* edge midpoints (16, 9.6) and (48, 28.8), displaced by the track half-width
\* against the normalised vector eastEdge - westEdge.
C12_LeftRail ==
    Scenario12 =>
        LET a == TileAnchors(0, 0, 0)
            perp == UnitAlong(a.west, a.east)
        IN  /\ Len(PathPoints(LeftRail)) = 2
            /\ FirstPoint(LeftRail) = Pt(1257, 1166)
            /\ LastPoint(LeftRail) = Pt(4457, 3086)
            /\ a.north = Pt(16 * PX, 960) /\ a.south = Pt(48 * PX, 2880)
            /\ FirstPoint(LeftRail) = Pt(a.north.x - Scale(perp.x, TRACK_WIDTH \div 2),
                                         a.north.y - Scale(perp.y, TRACK_WIDTH \div 2))
            /\ LastPoint(LeftRail) = Pt(a.south.x - Scale(perp.x, TRACK_WIDTH \div 2),
                                        a.south.y - Scale(perp.y, TRACK_WIDTH \div 2))
            /\ LeftRail.strokeStyle = COLORS.rail /\ LeftRail.lineWidth = RAIL_WIDTH

\* The scenario has been drawn with the default style, two rails stroked
C12_Witness ==
    /\ Scenario12
    /\ call.style = "metal"
    /\ Len(PartOps(ctx, "rail")) = 2
    /\ FirstPoint(LeftRail) = Pt(1257, 1166)

\* ------------------------------------------------------------------------
\* Reading supports from the log
\* ------------------------------------------------------------------------
\* The top beam of each support drawn, in order: the last stroke of the beam
\* (main colour; 2.5 px wide for wood, 2 px for metal)
TopBeams(c) ==
    SelectSeq(PartOps(c, "support"),
              LAMBDA o : /\ o.op = "stroke"
                         /\ \/ o.strokeStyle = COLORS.woodMain /\ o.lineWidth = 250
                            \/ o.strokeStyle = COLORS.metalMain /\ o.lineWidth = 2 * PX)

\* The column bases of the supports drawn, two a support, in order: the
\* foundation blocks of a wood support (a 3 px block around the base), the
\* base plates of a metal one (a diamond hanging from the base)
BaseMarks(c) ==
    SelectSeq(PartOps(c, "support"),
              LAMBDA o : \/ o.op = "fillRect"
                         \/ o.op = "fill" /\ o.fillStyle = COLORS.metalDark)

BaseOf(o) ==
    IF o.op = "fillRect"
    THEN Pt(o.path[1][2] + 150, o.path[1][3] + 1 * PX)
    ELSE FirstPoint(o)

\* Midpoint of the top beam, and between the two column bases, of support k
BeamMid(c, k) == Mid(FirstPoint(TopBeams(c)[k]), LastPoint(TopBeams(c)[k]))
BaseMid(c, k) == Mid(BaseOf(BaseMarks(c)[2 * k - 1]), BaseOf(BaseMarks(c)[2 * k]))

SlopeOfCall ==
    SlopeGeom(Origin(call.cell).x, Origin(call.cell).y, call.direction, call.h1, call.h2)

\* ------------------------------------------------------------------------
\* C13
\* ------------------------------------------------------------------------
\* C13 as claimed: drawSlopeTrack draws a support at both ends when at least
\* one of startHeight, endHeight is positive, and none when neither is.
C13_SupportsAtBothEnds ==
    Drawn("drawSlopeTrack") =>
        Len(TopBeams(ctx)) = IF call.h1 > 0 \/ call.h2 > 0 THEN 2 ELSE 0

\* C13 as amended: drawSlopeTrack draws a support at the entry end exactly
\* when startHeight is positive and at the exit end exactly when endHeight
\* is positive, each under its own end of the track; none when neither is.
C13_SupportPerElevatedEnd ==
    Drawn("drawSlopeTrack") =>
        /\ Len(TopBeams(ctx)) = (IF call.h1 > 0 THEN 1 ELSE 0) + (IF call.h2 > 0 THEN 1 ELSE 0)
        /\ Len(BaseMarks(ctx)) = 2 * Len(TopBeams(ctx))
        /\ call.h1 > 0 => BeamMid(ctx, 1) = SlopeOfCall.p1
        /\ call.h2 > 0 => BeamMid(ctx, Len(TopBeams(ctx))) = SlopeOfCall.p2
        /\ (call.h1 <= 0 /\ call.h2 <= 0) => PartOps(ctx, "support") = <<>>

\* A slope rising from the ground to height 1 has been drawn with one support
C13_Witness ==
    /\ Drawn("drawSlopeTrack")
    /\ call.h1 = 0 /\ call.h2 = 1
    /\ Len(TopBeams(ctx)) = 1
    /\ BeamMid(ctx, 1) = SlopeOfCall.p2

\* ------------------------------------------------------------------------
\* C14
\* ------------------------------------------------------------------------
\* max(3, floor(segmentLength / TIE_SPACING)) for the drawn straight track,
\* segmentLength being the distance between the ends of its centreline
StatedTieCount ==
    Max(3, Hypot(RailEnd.x - RailStart.x, RailEnd.y - RailStart.y) \div TIE_SPACING)

\* C14: drawStraightTrack strokes exactly max(3, floor(segmentLength /
\* TIE_SPACING)) crossties and drawCurvedTrack strokes exactly 4, for every
\* direction, turn sense and height.
C14_TieCounts ==
    /\ Drawn("drawStraightTrack") => Len(PartOps(ctx, "tie")) = StatedTieCount
    /\ Drawn("drawCurvedTrack") => Len(PartOps(ctx, "tie")) = 4

\* What the renderers stroke: one crosstie more than the count, the samples
\* i = 0 .. numTies with both ends included (holds).
C14_OneMoreThanStated ==
    /\ Drawn("drawStraightTrack") =>
           StatedTieCount = 4 /\ Len(PartOps(ctx, "tie")) = StatedTieCount + 1
    /\ Drawn("drawCurvedTrack") => Len(PartOps(ctx, "tie")) = 4 + 1

\* ------------------------------------------------------------------------
\* C15
\* ------------------------------------------------------------------------
\* The cycle north -> east -> south -> west -> north
Successor(e) ==
    CASE e = "north" -> "east" [] e = "east" -> "south"
      [] e = "south" -> "west" [] OTHER -> "north"
Predecessor(e) == Opposite(Successor(e))

\* The anchors of the tile of the call at the height of the call, by edge
AnchorAt(e) ==
    TileAnchors(Origin(call.cell).x, Origin(call.cell).y, call.h1 * HEIGHT_UNIT)[e]

\* The edge whose midpoint is p
EdgeOfPoint(p) == CHOOSE e \in TrackDirection : AnchorAt(e) = p

\* C15: a drawn turn starts at the edge named by its entry direction and
\* ends at the successor of that edge in the cycle north -> east -> south ->
\* west when turnRight, at its predecessor otherwise: never at the entry edge
\* or the one opposite, and the other turn sense ends at the opposite edge.
C15_TurnTable ==
    Drawn("drawCurvedTrack") =>
        /\ RailStart = AnchorAt(call.direction)
        /\ RailEnd = AnchorAt(IF call.turnRight THEN Successor(call.direction)
                                                ELSE Predecessor(call.direction))
        /\ EdgeOfPoint(RailEnd) \notin {call.direction, Opposite(call.direction)}
        /\ CurveGeom(Origin(call.cell).x, Origin(call.cell).y, call.direction,
                     ~call.turnRight, call.h1).toEdge
             = AnchorAt(Opposite(EdgeOfPoint(RailEnd)))
        /\ (call.direction = "north" /\ call.turnRight) => EdgeOfPoint(RailEnd) = "east"
        /\ (call.direction = "north" /\ ~call.turnRight) => EdgeOfPoint(RailEnd) = "west"

\* A right turn entered from the south has been drawn and ends at the west edge
C15_Witness ==
    /\ Drawn("drawCurvedTrack")
    /\ call.direction = "south" /\ call.turnRight
    /\ RailStart = AnchorAt("south")
    /\ RailEnd = AnchorAt("west")

\* ------------------------------------------------------------------------
\* C16
\* ------------------------------------------------------------------------
SquaredLength(d) == d.dx * d.dx + d.dy * d.dy

\* The first and the last link drawn
FirstLink == Pt(PartOps(ctx, "link")[1].path[1][2], PartOps(ctx, "link")[1].path[1][3])
LastLink ==
    LET links == PartOps(ctx, "link")
    IN  Pt(links[Len(links)].path[1][2], links[Len(links)].path[1][3])

\* C16: the direction vector drawLoopTrack and drawChainLift move along is a
\* unit vector, dx*dx + dy*dy = 1 within the rounding of its 4 decimals, so
\* a displacement of s along it moves s pixels: the 12 links of a level
\* chain lift at tickOffset 0, 4 px apart, span 44 px.
C16_UnitDirections ==
    /\ (Drawn("drawChainLift") \/ Drawn("drawLoopTrack")) =>
           Abs(SquaredLength(DIRECTIONS[call.direction]) - UNIT * UNIT) <= 4 * UNIT
    /\ (Drawn("drawChainLift") /\ call.tick = 0 /\ call.h1 = call.h2) =>
           /\ Len(PartOps(ctx, "link")) = 12
           /\ LengthIs(Dist2(FirstLink, LastLink), 44 * PX)

\* What the code has: dx*dx + dy*dy = 0.68 for all four directions, a length
\* of 0.8246, and the 12 links span 36.3 px (holds).
C16_DirectionsAreShort ==
    /\ \A d \in TrackDirection :
           Abs(SquaredLength(DIRECTIONS[d]) - 6800 * UNIT) <= 4 * UNIT
    /\ (Drawn("drawChainLift") /\ call.tick = 0 /\ call.h1 = call.h2) =>
           /\ Len(PartOps(ctx, "link")) = 12
           /\ LengthIs(Dist2(FirstLink, LastLink), 3628)

\* ------------------------------------------------------------------------
\* C19
\* ------------------------------------------------------------------------
\* The point ground level has directly below p, for a track at height h
Below(p, h) == Pt(p.x, p.y + h * HEIGHT_UNIT)

\* Support k stands under the centreline point p of a track at height h
StandsUnder(k, p, h) ==
    /\ BeamMid(ctx, k) = p
    /\ BaseMid(ctx, k) = Below(p, h)

\* The centreline of the drawn turn at t = 0.5: halfway between the rails
CurveMidDrawn == Mid(PointAt(PartOps(ctx, "rail")[1], 9), PointAt(PartOps(ctx, "rail")[2], 9))

\* C19: a support drawn by drawStraightTrack, drawCurvedTrack or
\* drawSlopeTrack, of either style, has the midpoint of its top beam on a
\* point of the track centreline and the midpoint between its column bases
\* height * HEIGHT_UNIT straight below it: the tile centre for a straight,
\* the curve point at t = 0.5 for a turn, the raised edge midpoint of each
\* elevated end for a slope.
C19_SupportUnderCentreline ==
    /\ (Drawn("drawStraightTrack") /\ call.h1 > 0) =>
           /\ Len(TopBeams(ctx)) = 1
           /\ StandsUnder(1, AnchorAt("center"), call.h1)
           /\ AnchorAt("center") = Mid(RailStart, RailEnd)
    /\ (Drawn("drawCurvedTrack") /\ call.h1 > 0) =>
           /\ Len(TopBeams(ctx)) = 1
           /\ StandsUnder(1, CurveMidDrawn, call.h1)
           /\ CurveMidDrawn = QuadPoint(CurveOfCall.fromEdge, CurveOfCall.center,
                                        CurveOfCall.toEdge, 1, 2)
    /\ (Drawn("drawSlopeTrack") /\ call.h1 > 0) => StandsUnder(1, RailStart, call.h1)
    /\ (Drawn("drawSlopeTrack") /\ call.h2 > 0) =>
           StandsUnder(Len(TopBeams(ctx)), RailEnd, call.h2)

\* A straight track at height 1 has been drawn on a metal support along the
\* east-west axis
C19_Witness ==
    /\ Drawn("drawStraightTrack")
    /\ call.h1 = 1 /\ call.style = "metal" /\ call.direction = "north"
    /\ Len(BaseMarks(ctx)) = 2
    /\ BaseOf(BaseMarks(ctx)[1]).y # BaseOf(BaseMarks(ctx)[2]).y
    /\ StandsUnder(1, AnchorAt("center"), 1)

\* ------------------------------------------------------------------------
\* C17
\* ------------------------------------------------------------------------
\* While mounted: at most one timer is pending, it is the one in the ref,
\* it was armed by the most recent invocation, and copied is true exactly
\* while it is pending.
OneResetTimer ==
    mounted =>
        /\ Cardinality(timers) <= 1
        /\ copied <=> timers # {}
        /\ \A t \in timers :
              /\ timeoutRef = {t.id}
              /\ t.remaining = TIMEOUT_MS - sinceClick

\* copied goes from true to false in this step
ResetStep == copied /\ ~copied'

\* C17: for every interleaving of handleCopyRoomLink invocations with a
\* room code and timer expirations while the component is mounted, at most
\* one reset timer is pending, copied is true exactly while it is pending,
\* copied is never reset earlier than TIMEOUT_MS after the most recent
\* invocation, and it is reset once that time has passed.
C17_ResetAfterLastInvocation ==
    /\ []OneResetTimer
    /\ [][ResetStep => sinceClick = TIMEOUT_MS]_vars
    /\ (mounted /\ copied) ~> (~mounted \/ ~copied)

\* A second invocation has replaced the timer of the first while it was
\* still running.
C17_Witness ==
    /\ mounted
    /\ copied
    /\ clicks >= 2
    /\ \E t \in timers : t.id = clicks /\ t.remaining \in 1 .. (TIMEOUT_MS - 1)
    /\ sinceClick > 0

\* ------------------------------------------------------------------------
\* C18
\* ------------------------------------------------------------------------
\* C18: once the component has unmounted no reset timer is pending, so
\* whatever invocations of handleCopyRoomLink were made before the unmount,
\* the callback that resets copied does not run after it.
C18_NoResetAfterUnmount ==
    /\ [](~mounted => timers = {})
    /\ [][~mounted => ~TimerFires]_vars

\* The component unmounted while the timer of a repeated invocation was
\* running: the ref still holds the handle and copied was never reset.
C18_Witness ==
    /\ ~mounted
    /\ copied
    /\ clicks >= 2
    /\ timeoutRef = {clicks}
    /\ sinceClick \in 1 .. (TIMEOUT_MS - 1)
    /\ timers = {}

====
